---- MODULE Spec2Model ----
(***************************************************************************)
(* Supply Chain Analytics dashboard (src/app.py): the cached loader of the *)
(* remote CSV export, and the render cycle of the script: month labels,    *)
(* sort, filter options, filtering, KPIs and the two group-by tables.      *)
(*                                                                         *)
(* A value of a table cell is a record [kind, text, n]:                    *)
(*   kind "str"   a Python str, text its characters                        *)
(*   kind "int"   a cell of an int64 column, text its decimal form         *)
(*   kind "float" a cell of a float64 column, text its repr ("101.0")      *)
(*   kind "num"   a cell of a coerced numeric column, n its value          *)
(*   kind "date"  a Timestamp, n = year*10000 + month*100 + day            *)
(*   kind "nan"   NaN / NaT / missing                                      *)
(***************************************************************************)
EXTENDS Integers, Sequences, FiniteSets, TLC

VARIABLES
    source,     \* the remote sheet: what a GET of the export URL returns now
    srcVer,     \* revision number of the remote sheet
    cache,      \* the st.cache_data entry of load_data
    run         \* the latest script run: its inputs, locals and outcome

vars == <<source, srcVer, cache, run>>

----------------------------------------------------------------------------
(* Bounds of the model. *)

MaxRows == 2        \* rows of a source sheet
MaxVersions == 2    \* edits of the remote sheet in one behaviour

(* Program constants. *)

TTL == 5            \* @st.cache_data(ttl=5)
TopN == 10          \* .tail(10) / .head(10)

----------------------------------------------------------------------------
(* Values. *)

Val(k, t, v) == [kind |-> k, text |-> t, n |-> v]
NaN == Val("nan", "", 0)
StrV(t) == Val("str", t, 0)
NumV(v) == Val("num", "", v)
IsNa(v) == v.kind = "nan"

Max2(a, b) == IF a >= b THEN a ELSE b

RECURSIVE SumSeq(_)
SumSeq(s) == IF s = <<>> THEN 0 ELSE Head(s) + SumSeq(Tail(s))

Range(s) == {s[i] : i \in DOMAIN s}

----------------------------------------------------------------------------
(* The remote sheet.  Column names as the export writes them, and the rows *)
(* as CSV text.                                                            *)

ColDate  == "Issue date"
ColCC    == "Requesting Cost Center"
ColItem  == "Item Name"
ColCode  == "Item Code"
ColQty   == "Issue Quantity"
ColTotal == "Line Item Total"
ColRate  == "Item Rate"
ColMonth == "Month_Year"

RawRow(d, cc, item, code, qty, total, rate) ==
    [date |-> d, cc |-> cc, item |-> item, code |-> code,
     qty |-> qty, total |-> total, rate |-> rate]

RowA == RawRow("15-Jan-2026", "A", "Cups", "C1", "10", "1000", "100")
RowB == RawRow("20-Jan-2026", "B", "Cups", "C1", "5", "500", "100")
RowN == RawRow("03-Feb-2026", "101", "Plates", "P1", "x", "250", "")
RowM == RawRow("soon", "", "", "", "3", "750", "tbd")

RowPool == {RowA, RowB, RowN, RowM}

HeaderFull ==
    {"Issue date :", "Requesting Cost Center :", "Item Name :", " Item Code",
     "Issue Quantity:", "Line Item Total :", "Item Rate :"}
HeaderNoRate == HeaderFull \ {"Item Rate :"}
HeaderNoDate == HeaderNoRate \ {"Issue date :"}
HeaderNoCC == HeaderNoRate \ {"Requesting Cost Center :"}
HeaderNoTotal == HeaderNoRate \ {"Line Item Total :"}

Headers == {HeaderFull, HeaderNoRate, HeaderNoDate, HeaderNoCC, HeaderNoTotal}

SeqsUpTo(S, n) == UNION {[1..k -> S] : k \in 0..n}

FailedFetch == [ok |-> FALSE, header |-> {}, rows |-> <<>>]
Sheet(h, rs) == [ok |-> TRUE, header |-> h, rows |-> rs]

AllSources ==
    {FailedFetch} \cup {Sheet(h, rs) : h \in Headers, rs \in SeqsUpTo(RowPool, MaxRows)}

(* The sheets of the lifecycle specification: a failing fetch, a sheet     *)
(* without the date column, and two sheets with different rows.            *)
LifecycleSources ==
    {FailedFetch, Sheet(HeaderNoDate, <<RowA>>),
     Sheet(HeaderFull, <<RowA, RowB>>), Sheet(HeaderFull, <<RowN>>)}

----------------------------------------------------------------------------
(* load_data: pd.read_csv, column clean-up, to_datetime, to_numeric.       *)

\* df.columns.str.strip().str.replace(' :', '').str.replace(':', '')
CleanName(raw) ==
    CASE raw = "Issue date :" -> ColDate
      [] raw = "Requesting Cost Center :" -> ColCC
      [] raw = "Item Name :" -> ColItem
      [] raw = " Item Code" -> ColCode
      [] raw = "Issue Quantity:" -> ColQty
      [] raw = "Line Item Total :" -> ColTotal
      [] raw = "Item Rate :" -> ColRate

\* the CSV field of a raw row that a column holds
Cell(row, col) ==
    CASE col = ColDate -> row.date
      [] col = ColCC -> row.cc
      [] col = ColItem -> row.item
      [] col = ColCode -> row.code
      [] col = ColQty -> row.qty
      [] col = ColTotal -> row.total
      [] col = ColRate -> row.rate

\* the CSV fields that parse as integers, and their values
IntTexts == {"3", "5", "10", "100", "101", "250", "500", "750", "1000"}
ParseInt(t) ==
    CASE t = "3" -> 3 [] t = "5" -> 5 [] t = "10" -> 10 [] t = "100" -> 100
      [] t = "101" -> 101 [] t = "250" -> 250 [] t = "500" -> 500
      [] t = "750" -> 750 [] t = "1000" -> 1000

\* repr of the float an integer field becomes in a float64 column
FloatText(t) ==
    CASE t = "3" -> "3.0" [] t = "5" -> "5.0" [] t = "10" -> "10.0"
      [] t = "100" -> "100.0" [] t = "101" -> "101.0" [] t = "250" -> "250.0"
      [] t = "500" -> "500.0" [] t = "750" -> "750.0" [] t = "1000" -> "1000.0"

\* pd.read_csv's dtype of a column from its fields: int64 when every field
\* is an integer, float64 when the others are empty, object otherwise
ColumnKind(cells) ==
    LET filled == cells \ {""}
    IN  IF filled \subseteq IntTexts
        THEN (IF "" \in cells \/ filled = {} THEN "float" ELSE "int")
        ELSE "str"

\* pd.read_csv's value of one field in a column of that dtype
ReadCell(t, kind) ==
    IF t = "" THEN NaN
    ELSE IF kind = "float" THEN Val("float", FloatText(t), 0)
    ELSE Val(kind, t, 0)

\* pd.to_datetime(..., errors='coerce')
ToDatetime(t) ==
    CASE t = "15-Jan-2026" -> Val("date", "", 20260115)
      [] t = "20-Jan-2026" -> Val("date", "", 20260120)
      [] t = "03-Feb-2026" -> Val("date", "", 20260203)
      [] OTHER -> NaN

\* pd.to_numeric(..., errors='coerce')
ToNumeric(t) == IF t \in IntTexts THEN NumV(ParseInt(t)) ELSE NaN

\* the coercion without its .fillna(0)
FillNa0_Dropped(v) == v

\* .fillna(0)
FillNa0(v) == IF IsNa(v) THEN NumV(0) ELSE v

\* pd.to_numeric(df[col], errors='coerce').fillna(0)
CoerceNumeric(t) == FillNa0(ToNumeric(t))

numeric_cols ==
    {"Requisition Quantity", ColQty, "Pending Issue Quantity", ColTotal, ColRate}

EmptyFrame == [columns |-> {}, rows |-> <<>>]

\* df.empty
IsEmpty(df) == df.columns = {} \/ df.rows = <<>>

\* the frame load_data returns from a fetched sheet (the body of the try)
Frame(src) ==
    LET cols == {CleanName(h) : h \in src.header}
        kindOf(c) == ColumnKind({Cell(src.rows[i], c) : i \in DOMAIN src.rows})
        value(i, c) ==
            IF c = ColDate THEN ToDatetime(Cell(src.rows[i], c))
            ELSE IF c \in numeric_cols THEN CoerceNumeric(Cell(src.rows[i], c))
            ELSE ReadCell(Cell(src.rows[i], c), kindOf(c))
    IN  [columns |-> cols,
         rows |-> [i \in DOMAIN src.rows |->
                     [idx |-> i, cells |-> [c \in cols |-> value(i, c)]]]]

\* load_data: [df, error]; error is the st.error of the except branch
load_data(src) ==
    IF src.ok /\ ColDate \in {CleanName(h) : h \in src.header}
    THEN [df |-> Frame(src), error |-> FALSE]
    ELSE [df |-> EmptyFrame, error |-> TRUE]

----------------------------------------------------------------------------
(* The render cycle: one run of the script below the load_data() call.     *)

\* the orderings of a finite set as sequences
Perms(S) == {f \in [1..Cardinality(S) -> S] : Range(f) = S}

\* sort key of a date: NaT sorts last in either direction
DateKey(v) == IF IsNa(v) THEN -1 ELSE v.n

\* df.sort_values('Issue date', ascending=False): every ordering of the rows
\* by descending date with NaT last (the order of ties is the sort's choice)
SortByDateDesc(rows) ==
    {p \in Perms(Range(rows)) :
        \A i \in 1..(Len(p) - 1) :
            DateKey(p[i].cells[ColDate]) >= DateKey(p[i + 1].cells[ColDate])}

\* .dt.strftime('%b-%Y')
MonthYear(v) ==
    IF IsNa(v) THEN NaN
    ELSE LET ym == v.n \div 100
         IN  CASE ym = 202601 -> StrV("Jan-2026")
               [] ym = 202602 -> StrV("Feb-2026")

\* df['Month_Year'] = df['Issue date'].dt.strftime('%b-%Y')
WithMonthYear(df) ==
    [columns |-> df.columns \cup {ColMonth},
     rows |-> [i \in DOMAIN df.rows |->
                 [idx |-> df.rows[i].idx,
                  cells |-> [c \in df.columns \cup {ColMonth} |->
                               IF c = ColMonth
                               THEN MonthYear(df.rows[i].cells[ColDate])
                               ELSE df.rows[i].cells[c]]]]]

\* Series.unique().tolist(): the distinct values in order of first appearance
RECURSIVE Unique(_, _)
Unique(s, seen) ==
    IF s = <<>> THEN <<>>
    ELSE IF Head(s) \in seen THEN Unique(Tail(s), seen)
         ELSE <<Head(s)>> \o Unique(Tail(s), seen \cup {Head(s)})

Column(rows, c) == [i \in DOMAIN rows |-> rows[i].cells[c]]

\* .astype(str) of one value: str(v)
AsStr(v) == IF IsNa(v) THEN StrV("nan") ELSE StrV(v.text)

\* sorted(df[col].astype(str).unique().tolist()), as the set of its members
Options(rows, c) == {AsStr(v) : v \in Range(Column(rows, c))}

\* Series.isin(values): NaN is a member of a list that holds NaN
IsIn(v, values) == v \in values

\* the filter without its `if selected:` guard
FilterBy_NoGuard(rows, c, selected) ==
    LET Keep(r) == r.cells[c] \in selected
    IN  SelectSeq(rows, Keep)

\* if selected: filtered_df = filtered_df[filtered_df[col].isin(selected)]
FilterBy(rows, c, selected) ==
    LET Keep(r) == IsIn(r.cells[c], selected)
    IN  IF selected = {} THEN rows ELSE SelectSeq(rows, Keep)

\* the Filtering Logic block with the item filter taken from df, not from
\* filtered_df
ApplyFilters_ItemOnFull(rows, months, ccs, its) ==
    LET Keep(r) == r.cells[ColItem] \in its
    IN  IF its = {}
        THEN FilterBy(FilterBy(rows, ColMonth, months), ColCC, ccs)
        ELSE SelectSeq(rows, Keep)

\* the Filtering Logic block
ApplyFilters(rows, months, ccs, its) ==
    FilterBy(FilterBy(FilterBy(rows, ColMonth, months), ColCC, ccs), ColItem, its)

\* Series.sum() of a numeric column
ColumnSum(rows, c) == SumSeq([i \in DOMAIN rows |-> rows[i].cells[c].n])

\* Series.nunique(): NaN is not counted
NUnique(rows, c) == Cardinality({v \in Range(Column(rows, c)) : ~IsNa(v)})

\* groupby(key)[val].sum().reset_index(): one row per key, NaN keys dropped
GroupSum(rows, key, val) ==
    {[key |-> k,
      value |-> LET Same(r) == r.cells[key] = k
                IN  ColumnSum(SelectSeq(rows, Same), val)] :
        k \in {v \in Range(Column(rows, key)) : ~IsNa(v)}}

\* .sort_values(val, ascending=True).tail(10)
TopAscending(groups) ==
    {SubSeq(p, Max2(1, Len(p) - TopN + 1), Len(p)) :
        p \in {q \in Perms(groups) :
                 \A i \in 1..(Len(q) - 1) : q[i].value <= q[i + 1].value}}

\* .sort_values(val, ascending=False).head(10)
TopDescending(groups) ==
    {SubSeq(p, 1, IF Len(p) < TopN THEN Len(p) ELSE TopN) :
        p \in {q \in Perms(groups) :
                 \A i \in 1..(Len(q) - 1) : q[i].value >= q[i + 1].value}}

\* default=available_months[:1] if available_months else None
DefaultMonths(available_months) ==
    IF available_months = <<>> THEN {} ELSE {available_months[1]}

\* the locals of a script run before anything is computed
BlankRun ==
    [event |-> "none", fetched |-> FALSE, shownVer |-> 0, error |-> FALSE,
     status |-> "none", loaded |-> EmptyFrame, df |-> EmptyFrame,
     available_months |-> <<>>, cost_centers |-> {}, items |-> {},
     selected_months |-> {}, selected_cc |-> {}, selected_items |-> {},
     filtered |-> FALSE, filtered_df |-> <<>>,
     kpis |-> FALSE, total_spend |-> 0, total_issued_qty |-> 0,
     unique_items |-> 0, active_ccs |-> 0,
     grouped |-> FALSE, cc_groups |-> {}, cc_spend |-> <<>>, item_qty |-> <<>>]

\* the frame the KPIs and the charts read: filtered_df
KpiRows_FullFrame(r) == r.df.rows

KpiRows(r) == r.filtered_df

\* KPIs and Charts Section: from filtered_df to the end of the script
Dashboard(r) ==
    LET view == KpiRows(r)
    IN  IF ~({ColTotal, ColQty, ColCode} \subseteq r.df.columns)
        THEN {[r EXCEPT !.status = "KeyError"]}
        ELSE LET k == [r EXCEPT !.kpis = TRUE,
                                !.total_spend = ColumnSum(view, ColTotal),
                                !.total_issued_qty = ColumnSum(view, ColQty),
                                !.unique_items = NUnique(view, ColCode),
                                !.active_ccs = NUnique(view, ColCC),
                                !.status = "rendered"]
             IN  IF view = <<>> THEN {k}
                 ELSE {[k EXCEPT !.grouped = TRUE,
                                 !.cc_groups = GroupSum(view, ColCC, ColTotal),
                                 !.cc_spend = cs, !.item_qty = iq] :
                         cs \in TopAscending(GroupSum(view, ColCC, ColTotal)),
                         iq \in TopDescending(GroupSum(view, ColItem, ColQty))}

\* Sidebar filters and Filtering Logic on the sorted frame
Sidebar(r, anySelection) ==
    LET months == Unique(Column(r.df.rows, ColMonth), {})
        m == [r EXCEPT !.available_months = months]
    IN  IF ~({ColCC, ColItem} \subseteq r.df.columns)
        THEN {[m EXCEPT !.status = "KeyError",
                        !.selected_months = sm] :
                sm \in IF anySelection THEN SUBSET Range(months)
                       ELSE {DefaultMonths(months)}}
        ELSE LET ccs == Options(r.df.rows, ColCC)
                 its == Options(r.df.rows, ColItem)
             IN  UNION {Dashboard([m EXCEPT !.cost_centers = ccs, !.items = its,
                                            !.selected_months = sm,
                                            !.selected_cc = sc,
                                            !.selected_items = si,
                                            !.filtered = TRUE,
                                            !.filtered_df =
                                                ApplyFilters(r.df.rows, sm, sc, si)]) :
                          sm \in IF anySelection THEN SUBSET Range(months)
                                 ELSE {DefaultMonths(months)},
                          sc \in IF anySelection THEN SUBSET ccs ELSE {{}},
                          si \in IF anySelection THEN SUBSET its ELSE {{}}}

\* the script from `if not df.empty` on: every outcome of one run on the
\* frame load_data() returned; anySelection is FALSE on the first run of a
\* session, where the widgets hold their defaults
Script(r, anySelection) ==
    IF IsEmpty(r.loaded)
    THEN {[r EXCEPT !.status = "nodata"]}
    ELSE LET withMonth == WithMonthYear(r.loaded)
         IN  UNION {Sidebar([r EXCEPT !.df = [columns |-> withMonth.columns,
                                              rows |-> p]], anySelection) :
                      p \in SortByDateDesc(withMonth.rows)}

----------------------------------------------------------------------------
(* The cache of load_data and the actions.                                 *)

NoEntry == [present |-> FALSE, df |-> EmptyFrame, error |-> FALSE, ver |-> 0, age |-> 0]

\* what st.cache_data stores for the call: the returned frame and the
\* st.error it replays, here with the sheet revision it was fetched from
CacheEntry(ld, ver) ==
    [present |-> TRUE, df |-> ld.df, error |-> ld.error, ver |-> ver, age |-> 0]

\* a cache that serves the frames of successful loads only
Fresh_RetryErrors(entry) == entry.present /\ entry.age < TTL /\ ~entry.error

\* ttl=5: an entry is served while it is younger than the ttl
Fresh(entry) == entry.present /\ entry.age < TTL

\* a refresh that leaves the entry in place
ClearCache_Kept(entry) == entry

\* st.cache_data.clear()
ClearCache(entry) == NoEntry

\* df = load_data() through the cache `entry`; sets cache' and yields the
\* run's inputs
Load(entry, event) ==
    IF Fresh(entry)
    THEN /\ cache' = entry
         /\ \E r \in Script([BlankRun EXCEPT !.event = event, !.fetched = FALSE,
                                             !.shownVer = entry.ver,
                                             !.error = entry.error,
                                             !.loaded = entry.df],
                            event # "open") : run' = r
    ELSE LET ld == load_data(source)
         IN  /\ cache' = CacheEntry(ld, srcVer)
             /\ \E r \in Script([BlankRun EXCEPT !.event = event, !.fetched = TRUE,
                                                 !.shownVer = srcVer,
                                                 !.error = ld.error,
                                                 !.loaded = ld.df],
                                event # "open") : run' = r

\* the first run of a session
Open ==
    /\ run.event = "none"
    /\ Load(cache, "open")
    /\ UNCHANGED <<source, srcVer>>

\* a widget changes: the script runs again
Rerun ==
    /\ run.event # "none"
    /\ Load(cache, "rerun")
    /\ UNCHANGED <<source, srcVer>>

\* the Refresh Data button: st.cache_data.clear(); st.rerun()
Refresh ==
    /\ run.event # "none"
    /\ Load(ClearCache(cache), "refresh")
    /\ UNCHANGED <<source, srcVer>>

\* a second passes
Tick ==
    /\ cache.present /\ cache.age < TTL
    /\ cache' = [cache EXCEPT !.age = cache.age + 1]
    /\ UNCHANGED <<source, srcVer, run>>

\* somebody edits the sheet, or the export starts or stops failing
SourceChange(sources) ==
    /\ srcVer < MaxVersions
    /\ source' \in sources \ {source}
    /\ srcVer' = srcVer + 1
    /\ UNCHANGED <<cache, run>>

EditSheet == SourceChange(LifecycleSources)

Init ==
    /\ source \in LifecycleSources
    /\ srcVer = 0
    /\ cache = NoEntry
    /\ run = BlankRun

Next == Open \/ Rerun \/ Refresh \/ Tick \/ EditSheet

Spec == Init /\ [][Next]_vars

(* The pipeline on every sheet of the bounds: the sheet is fixed, and a    *)
(* session is its first run and one change of the selection.              *)

InitPipeline ==
    /\ source \in AllSources
    /\ srcVer = 0
    /\ cache = NoEntry
    /\ run = BlankRun

\* the first widget change of a session: Script reads the loaded frame and
\* the selection and nothing of the run before, so the run after the first
\* already has every outcome a later one can have
Select == run.event = "open" /\ Rerun

NextPipeline == Open \/ Select

SpecPipeline == InitPipeline /\ [][NextPipeline]_vars

----------------------------------------------------------------------------
(* Properties.                                                             *)

RECURSIVE SetSum(_)
SetSum(S) ==
    IF S = {} THEN 0
    ELSE LET x == CHOOSE y \in S : TRUE IN x.value + SetSum(S \ {x})

\* a row passes the three membership tests of the run's selection, each
\* applying only when its set is not empty
Passes(row) ==
    /\ run.selected_months = {} \/ row.cells[ColMonth] \in run.selected_months
    /\ run.selected_cc = {} \/ row.cells[ColCC] \in run.selected_cc
    /\ run.selected_items = {} \/ row.cells[ColItem] \in run.selected_items

PassingRows == {row \in Range(run.df.rows) : Passes(row)}

ByMonth(rows) == FilterBy(rows, ColMonth, run.selected_months)
ByCC(rows) == FilterBy(rows, ColCC, run.selected_cc)
ByItem(rows) == FilterBy(rows, ColItem, run.selected_items)

(* C1: the filtered view is exactly the rows of the frame that pass all    *)
(* three membership tests (a test applies only when its set is not empty), *)
(* and the three filters applied in each of the six orders give that view. *)
C1_FilterConjunctiveAnyOrder ==
    run.filtered =>
        /\ Range(run.filtered_df) = PassingRows
        /\ Len(run.filtered_df) = Cardinality(PassingRows)
        /\ run.filtered_df = ByItem(ByCC(ByMonth(run.df.rows)))
        /\ run.filtered_df = ByCC(ByItem(ByMonth(run.df.rows)))
        /\ run.filtered_df = ByItem(ByMonth(ByCC(run.df.rows)))
        /\ run.filtered_df = ByMonth(ByItem(ByCC(run.df.rows)))
        /\ run.filtered_df = ByCC(ByMonth(ByItem(run.df.rows)))
        /\ run.filtered_df = ByMonth(ByCC(ByItem(run.df.rows)))

\* the three sets are chosen, a row passes and a row is removed
C1_Witness ==
    /\ run.filtered
    /\ run.selected_months # {} /\ run.selected_cc # {} /\ run.selected_items # {}
    /\ run.filtered_df # <<>>
    /\ Len(run.filtered_df) < Len(run.df.rows)

(* C2: with the three filter sets empty the filtered view is the whole     *)
(* loaded dataset, one row per row of the sheet, the rows whose issue date *)
(* did not parse (no month label) included.                                *)
C2_EmptySelectionKeepsAll ==
    (/\ run.filtered
     /\ run.selected_months = {} /\ run.selected_cc = {} /\ run.selected_items = {})
    => /\ run.filtered_df = run.df.rows
       /\ Len(run.filtered_df) = Len(run.loaded.rows)
       /\ {r.idx : r \in Range(run.filtered_df)} = DOMAIN run.loaded.rows
       /\ \A i \in DOMAIN run.loaded.rows :
              IsNa(run.loaded.rows[i].cells[ColDate]) =>
                  \E r \in Range(run.filtered_df) :
                      r.idx = i /\ IsNa(r.cells[ColMonth])

\* nothing is selected and a row without a month label is in the view
C2_Witness ==
    /\ run.filtered
    /\ run.selected_months = {} /\ run.selected_cc = {} /\ run.selected_items = {}
    /\ \E r \in Range(run.filtered_df) : IsNa(r.cells[ColMonth])
    /\ \E r \in Range(run.filtered_df) : ~IsNa(r.cells[ColMonth])

RECURSIVE SumOver(_, _)
SumOver(S, c) ==
    IF S = {} THEN 0
    ELSE LET x == CHOOSE y \in S : TRUE IN x.cells[c].n + SumOver(S \ {x}, c)

ScenarioSheet == source.ok /\ source.rows = <<RowA, RowB>>

(* C3: the four metrics are computed over the rows of the filtered view:   *)
(* total spend the sum of Line Item Total, units issued the sum of Issue   *)
(* Quantity, unique items the number of distinct Item Code values, active  *)
(* cost centers the number of distinct Requesting Cost Center values; the  *)
(* two-row scenario gives 1500/15/1/2 unfiltered and 1000/10/1/1 for the   *)
(* cost-center filter {A}.                                                 *)
C3_MetricsOverFilteredView ==
    run.kpis =>
        /\ run.total_spend = SumOver(PassingRows, ColTotal)
        /\ run.total_issued_qty = SumOver(PassingRows, ColQty)
        /\ run.unique_items =
               Cardinality({r.cells[ColCode] : r \in PassingRows} \ {NaN})
        /\ run.active_ccs =
               Cardinality({r.cells[ColCC] : r \in PassingRows} \ {NaN})
        /\ (/\ ScenarioSheet
            /\ run.selected_months = {} /\ run.selected_items = {}
            /\ run.selected_cc = {})
           => <<run.total_spend, run.total_issued_qty, run.unique_items,
                run.active_ccs>> = <<1500, 15, 1, 2>>
        /\ (/\ ScenarioSheet
            /\ run.selected_months = {} /\ run.selected_items = {}
            /\ run.selected_cc = {StrV("A")})
           => <<run.total_spend, run.total_issued_qty, run.unique_items,
                run.active_ccs>> = <<1000, 10, 1, 1>>

\* the scenario with the cost-center filter {A}: the metrics are those of
\* the one row kept, not of the two rows loaded
C3_Witness ==
    /\ run.kpis /\ ScenarioSheet
    /\ run.selected_months = {} /\ run.selected_items = {}
    /\ run.selected_cc = {StrV("A")}
    /\ run.total_spend = 1000
    /\ Len(run.df.rows) = 2

(* C9: after a successful load every cell of every designated numeric      *)
(* column the sheet has holds a number: the parsed value of a numeric      *)
(* field, 0 for any other field, never a missing value.                    *)
C9_NumericCellsAreNumbers ==
    (cache.present /\ ~cache.error) =>
        \A i \in DOMAIN cache.df.rows :
            \A c \in numeric_cols \cap cache.df.columns :
                LET raw == Cell(source.rows[i], c)
                    v == cache.df.rows[i].cells[c]
                IN  /\ v.kind = "num"
                    /\ v.n = IF raw \in IntTexts THEN ParseInt(raw) ELSE 0

\* a loaded sheet with the Item Rate column, a field that is no number (now
\* 0) and a field that is one (kept)
C9_Witness ==
    /\ cache.present /\ ~cache.error
    /\ ColRate \in cache.df.columns
    /\ \E i \in DOMAIN cache.df.rows :
           /\ Cell(source.rows[i], ColQty) \notin IntTexts
           /\ cache.df.rows[i].cells[ColQty] = NumV(0)
    /\ \E i \in DOMAIN cache.df.rows :
           /\ Cell(source.rows[i], ColTotal) = "250"
           /\ cache.df.rows[i].cells[ColTotal] = NumV(250)

(* C4: the per-cost-center spend aggregate, summed over its groups before  *)
(* the top-N cut, is the total spend of the filtered view, also when rows  *)
(* of the view have no cost center.                                        *)
C4_GroupSpendConserved ==
    run.grouped => SetSum(run.cc_groups) = run.total_spend

\* the header columns the pipeline reads
ExpectedColumns == {ColDate, ColCC, ColItem, ColCode, ColQty, ColTotal}

\* the fetch fails, or the sheet lacks an expected column
LoadFails(src) ==
    ~src.ok \/ ~(ExpectedColumns \subseteq {CleanName(h) : h \in src.header})

(* C5: a fetch or parse failure of the load, a sheet that lacks an         *)
(* expected column included, never escapes as an exception: the loader     *)
(* reports the error and returns an empty dataset, and on an empty dataset *)
(* the run reports "no data" and stops before any filter, metric or        *)
(* grouping step.                                                          *)
C5_LoadFailureNeverEscapes ==
    run.event # "none" =>
        /\ LoadFails(source) =>
               /\ run.status # "KeyError"
               /\ run.error
               /\ IsEmpty(run.loaded)
        /\ IsEmpty(run.loaded) =>
               /\ run.status = "nodata"
               /\ ~run.filtered /\ ~run.kpis /\ ~run.grouped

(* C6: when the dataset is not empty and the selection matches no row, the *)
(* run completes without error: total spend, units issued, unique items    *)
(* and active cost centers are 0, both aggregate tables are empty and the  *)
(* grouping steps are skipped.                                             *)
C6_EmptyViewRendersZeros ==
    (/\ run.event # "none"
     /\ ~IsEmpty(run.loaded)
     /\ run.filtered /\ run.filtered_df = <<>>)
    => /\ run.status = "rendered"
       /\ run.kpis
       /\ <<run.total_spend, run.total_issued_qty, run.unique_items,
            run.active_ccs>> = <<0, 0, 0, 0>>
       /\ ~run.grouped
       /\ run.cc_spend = <<>> /\ run.item_qty = <<>>

(* C10: every option the cost-center filter and the item filter offer      *)
(* matches a row: selecting one offered option, the other two sets empty,  *)
(* gives a filtered view that is not empty.                                *)
C10_OfferedOptionMatchesARow ==
    (/\ run.filtered
     /\ run.selected_months = {}
     /\ \/ Cardinality(run.selected_cc) = 1 /\ run.selected_items = {}
        \/ run.selected_cc = {} /\ Cardinality(run.selected_items) = 1)
    => run.filtered_df # <<>>

\* a step that runs the script (Open, Rerun or Refresh): the sheet is not
\* edited, and the step is no tick of the entry's age
RunStep == srcVer' = srcVer /\ ~(run' = run /\ cache'.age = cache.age + 1)

(* C7: the run after an explicit refresh, and the run after the cache      *)
(* entry has reached its time-to-live, fetch anew and render what that     *)
(* fetch returned and nothing of the entry before; the revision a run      *)
(* shows never goes back, so no run after the refresh shows the dataset    *)
(* from before it.                                                         *)
C7_RefreshAndExpiryRefetch ==
    [][RunStep =>
        /\ (run'.event = "refresh" \/ ~(cache.present /\ cache.age < TTL))
           => /\ run'.fetched
              /\ run'.loaded = load_data(source).df
              /\ run'.error = load_data(source).error
              /\ run'.shownVer = srcVer
              /\ cache' = CacheEntry(load_data(source), srcVer)
        /\ run'.loaded = cache'.df
        /\ run'.shownVer = cache'.ver
        /\ run'.shownVer >= run.shownVer
        /\ run'.shownVer >= cache.ver]_vars

\* a refresh has replaced a dataset of an older revision: the run shows the
\* rows of the sheet as it is now
C7_Witness ==
    /\ run.event = "refresh" /\ run.fetched
    /\ srcVer > 0 /\ run.shownVer = srcVer
    /\ run.status = "rendered"
    /\ cache.age = 0

(* C8: a failed load is not retried on its own: while the entry of the     *)
(* failed load is younger than the time-to-live, a run that is no refresh  *)
(* fetches nothing and sees the empty dataset again; a run fetches only    *)
(* when there is no entry younger than the time-to-live, or on a refresh.  *)
C8_FailedLoadNotRetried ==
    [][RunStep =>
        /\ (/\ run'.event # "refresh"
            /\ cache.present /\ cache.error /\ cache.age < TTL)
           => /\ ~run'.fetched
              /\ run'.status = "nodata"
              /\ run'.error
              /\ IsEmpty(run'.loaded)
              /\ cache' = cache
        /\ run'.fetched
           => (run'.event = "refresh" \/ ~(cache.present /\ cache.age < TTL))]_vars

\* the failed load is served again although the sheet would load by now
C8_Witness ==
    /\ cache.present /\ cache.error /\ cache.age > 0
    /\ run.event = "rerun" /\ ~run.fetched /\ run.status = "nodata"
    /\ ~load_data(source).error

====
